---------------------------- MODULE Spec2Model ----------------------------
(***************************************************************************)
(* BoundingBoxFactor::evaluateError of gtsam-quadrics: the residual        *)
(* between the box predicted from a (pose, quadric) pair and the measured  *)
(* box, with its Jacobians and its handling of projection failures.        *)
(*                                                                         *)
(* Worker threads of the host solver evaluate factors that share one       *)
(* calibration.  An evaluation is a sequence of steps (enter the try       *)
(* block, project, extract the box, subtract / unwind, return), so that    *)
(* evaluations of different threads interleave.                            *)
(*                                                                         *)
(* Numbers are integers: a square root is its floor, a quotient is its     *)
(* floor.  A Jacobian block is its shape and the expression it holds.      *)
(***************************************************************************)
EXTENDS Integers, Sequences, FiniteSets, TLC

(***************************************************************************)
(* Bounds of the model.                                                    *)
(***************************************************************************)
\* camera positions on the optical axis: -MaxDepth, 0, MaxDepth
MaxDepth == 5
\* second radius of a quadric: 1..MaxRadius
MaxRadius == 2

(***************************************************************************)
(* Program constants.                                                      *)
(***************************************************************************)
\* Cal3_S2(525.0, 525.0, 0.0, 320.0, 240.0)
CalFx == 525
CalFy == 525
CalSkew == 0
CalU0 == 320
CalV0 == 240
\* BOX_SD
BoxSigma == 3
\* Vector4::Ones()*1000.0
FallbackValue == 1000
\* the sigma of the disabled "set high sigma" line
HighSigma == 1000000
\* the z radius of the example's quadrics, Vector3(1.,2.,3.)
RadiusZ == 3

Threads == {"w1", "w2"}
FactorIds == {"bbfSimple", "bbfStrict"}

QPE == "QuadricProjectionException"
ExceptionClasses == {QPE, "runtime_error", "exception"}

(***************************************************************************)
(* Values.                                                                 *)
(***************************************************************************)
\* Pose3 with the identity rotation: its translation
Poses == {<<0, 0, z>> : z \in {-MaxDepth, 0, MaxDepth}}

\* ConstrainedDualQuadric(Pose3(Rot3(), centre), radii)
Quadrics == {[centre |-> <<0, 0, 0>>, radii |-> <<1, r, RadiusZ>>] : r \in 1..MaxRadius}

\* a matrix: its shape and the expression it holds
Mat(r, c, e) == [rows |-> r, cols |-> c, expr |-> e]
\* boost::none for an optional Jacobian
NoRef == Mat(0, 0, "none")
\* "Matrix H1;" of the caller, not yet written
EmptyMatrix == Mat(0, 0, "empty")
\* a declared Eigen matrix that nothing has written
Uninit(r, c) == Mat(r, c, "uninit")
\* Matrix::Zero(r, c)
ZeroMatrix(r, c) == Mat(r, c, "zero")
\* A * B, defined when the inner dimensions agree
MatMul(A, B) ==
  IF A.cols = B.rows
    THEN Mat(A.rows, B.cols, A.expr \o "*" \o B.expr)
    ELSE Mat(0, 0, "shape error")

NoBox == <<>>
NoConic == <<>>
NoVector == <<>>
NoException == [at |-> "", class |-> ""]
Exception(stage, k) == [at |-> stage, class |-> k]

\* a - b of two 4-vectors
VecSub(a, b) == <<a[1] - b[1], a[2] - b[2], a[3] - b[3], a[4] - b[4]>>

(***************************************************************************)
(* Integer arithmetic.                                                     *)
(***************************************************************************)
RECURSIVE SqrtSearch(_, _, _)
\* the largest s in lo..hi with s*s <= n
SqrtSearch(n, lo, hi) ==
  IF lo >= hi THEN lo
  ELSE LET mid == (lo + hi + 1) \div 2
       IN IF mid * mid <= n THEN SqrtSearch(n, mid, hi)
                            ELSE SqrtSearch(n, lo, mid - 1)

Sqrt(n) == SqrtSearch(n, 0, 46340)

\* n / d for d # 0
Div(n, d) == IF d < 0 THEN (-n) \div (-d) ELSE n \div d

Min(a, b) == IF a <= b THEN a ELSE b
Max(a, b) == IF a >= b THEN a ELSE b

(***************************************************************************)
(* QuadricCamera::project: C* = P Q* P^T.                                  *)
(***************************************************************************)
\* the 4x4 dual quadric Z diag(r1^2, r2^2, r3^2, -1) Z^T, Z = [I c; 0 1]
DualQuadricMatrix(q) ==
  LET c == q.centre
      r == q.radii
      d == <<r[1] * r[1], r[2] * r[2], r[3] * r[3]>>
      e(i, j) == IF i = j THEN d[i] - c[i] * c[j] ELSE 0 - c[i] * c[j]
  IN << <<e(1,1), e(1,2), e(1,3), 0 - c[1]>>,
        <<e(2,1), e(2,2), e(2,3), 0 - c[2]>>,
        <<e(3,1), e(3,2), e(3,3), 0 - c[3]>>,
        <<0 - c[1], 0 - c[2], 0 - c[3], -1>> >>

\* the 3x4 projection matrix K [I | -t] of a pose with the identity rotation
ProjectionMatrix(pose, K) ==
  LET k == << <<K.fx, K.s, K.u0>>, <<0, K.fy, K.v0>>, <<0, 0, 1>> >>
      col4(i) == 0 - (k[i][1] * pose[1] + k[i][2] * pose[2] + k[i][3] * pose[3])
  IN << <<k[1][1], k[1][2], k[1][3], col4(1)>>,
        <<k[2][1], k[2][2], k[2][3], col4(2)>>,
        <<k[3][1], k[3][2], k[3][3], col4(3)>> >>

\* the projected dual conic P Q* P^T
ProjectConic(quadric, pose, K) ==
  LET P == ProjectionMatrix(pose, K)
      Q == DualQuadricMatrix(quadric)
      PQ(i, j) == P[i][1] * Q[1][j] + P[i][2] * Q[2][j] + P[i][3] * Q[3][j] + P[i][4] * Q[4][j]
      C(i, j) == PQ(i, 1) * P[j][1] + PQ(i, 2) * P[j][2] + PQ(i, 3) * P[j][3] + PQ(i, 4) * P[j][4]
  IN << <<C(1,1), C(1,2), C(1,3)>>,
        <<C(2,1), C(2,2), C(2,3)>>,
        <<C(3,1), C(3,2), C(3,3)>> >>

(***************************************************************************)
(* DualConic::bounds and DualConic::smartBounds.                           *)
(***************************************************************************)
\* the discriminant of the tangent lines orthogonal to axis i
Discriminant(C, i) == C[i][3] * C[i][3] - C[3][3] * C[i][i]

\* bounds cannot be defined: no finite real tangent lines
BoundsUndefined(C) ==
  \/ C[3][3] = 0
  \/ Discriminant(C, 1) < 0
  \/ Discriminant(C, 2) < 0

\* the box (xmin, ymin, xmax, ymax) tangent to the conic
ConicBox(C) ==
  LET sx == Sqrt(Discriminant(C, 1))
      sy == Sqrt(Discriminant(C, 2))
      xa == Div(C[1][3] + sx, C[3][3])
      xb == Div(C[1][3] - sx, C[3][3])
      ya == Div(C[2][3] + sy, C[3][3])
      yb == Div(C[2][3] - sy, C[3][3])
  IN <<Min(xa, xb), Min(ya, yb), Max(xa, xb), Max(ya, yb)>>

\* the outcome of dualConic.bounds(): a box, or DegenerateConic
BoundsOutcome(C) ==
  IF BoundsUndefined(C)
    THEN [exc |-> Exception("bounds", QPE), box |-> NoBox]
    ELSE [exc |-> NoException, box |-> ConicBox(C)]

\* every edge lies in the field of view, the image 0..2*u0 by 0..2*v0
InFieldOfView(b, K) ==
  /\ 0 <= b[1] /\ b[3] <= 2 * K.u0
  /\ 0 <= b[2] /\ b[4] <= 2 * K.v0

\* the outcome of dualConic.smartBounds(calibration): a box, or
\* ExtremaExtractionFailure, a std::runtime_error
SmartBoundsOutcome(C, K) ==
  IF BoundsUndefined(C) \/ ~InFieldOfView(ConicBox(C), K)
    THEN [exc |-> Exception("smartBounds", "runtime_error"), box |-> NoBox]
    ELSE [exc |-> NoException, box |-> ConicBox(C)]


(***************************************************************************)
(* State.                                                                  *)
(***************************************************************************)
VARIABLES
  scene,        \* a true pose, a true quadric and the bounds measured from them
  calibration,  \* the Cal3_S2 every factor points to
  factors,      \* per factor: measured_, errorType_, noiseModel_
  call          \* per thread: its evaluation in progress

vars == <<scene, calibration, factors, call>>

\* a thread between two evaluations
IdleCall ==
  [pc |-> "idle", entry |-> "", factor |-> "", pose |-> <<>>, quadric |-> <<>>,
   H1 |-> NoRef, H2 |-> NoRef,
   dualConic |-> NoConic, dC_dx |-> NoRef, dC_dq |-> NoRef, db_dC |-> NoRef,
   predictedBounds |-> NoBox, calls |-> <<>>,
   thrown |-> NoException, inflight |-> "",
   error |-> NoVector, retMatrix |-> NoRef]

\* the entry of evaluateError(pose, quadric, H1, H2): the try block is
\* entered with its locals declared and unwritten
EnterEvaluateError(entry, f, pose, quadric, H1, H2) ==
  [IdleCall EXCEPT !.pc = "entered", !.entry = entry, !.factor = f,
                   !.pose = pose, !.quadric = quadric, !.H1 = H1, !.H2 = H2,
                   !.dC_dx = Uninit(9, 6), !.dC_dq = Uninit(9, 9),
                   !.db_dC = Uninit(4, 9)]

Requested(H) == H # NoRef

\* what QuadricCamera::project is asked for: H2 ? &dC_dq : 0, H1 ? &dC_dx : 0
ProjectJacobians(c) ==
  (IF Requested(c.H2) THEN {"dC_dq"} ELSE {}) \cup
  (IF Requested(c.H1) THEN {"dC_dx"} ELSE {})

\* the box Jacobian computed only when both blocks are requested
ComputeJacobiansBoth(c) == Requested(c.H1) /\ Requested(c.H2)

\* bool(H1 || H2) && !NUMERICAL_DERIVATIVE
ComputeJacobians(c) == Requested(c.H1) \/ Requested(c.H2)

\* the exception leaves the statement that raised it
Raise(c, exc, k) == [c EXCEPT !.pc = "unwinding", !.thrown = exc, !.inflight = k]

\* quadric.isBehind(pose): the quadric's centre has a negative depth
IsBehind(quadric, pose) == quadric.centre[3] - pose[3] < 0

\* quadric.contains(pose): the camera centre lies inside the ellipsoid
Contains(quadric, pose) ==
  LET r == quadric.radii
      d == <<pose[1] - quadric.centre[1], pose[2] - quadric.centre[2],
             pose[3] - quadric.centre[3]>>
      a == r[1] * r[1]
      b == r[2] * r[2]
      e == r[3] * r[3]
  IN d[1] * d[1] * b * e + d[2] * d[2] * a * e + d[3] * d[3] * a * b <= a * b * e

\* "check pose-quadric pair", as re-enabled: the predicates consulted and
\* the exception raised
PoseQuadricCheckEnabled(c, errorType) ==
  IF errorType # "COMPLEX" THEN [calls |-> <<>>, exc |-> NoException]
  ELSE IF IsBehind(c.quadric, c.pose)
    THEN [calls |-> <<[fn |-> "isBehind", jac |-> {}]>>,
          exc |-> Exception("isBehind", QPE)]
  ELSE IF Contains(c.quadric, c.pose)
    THEN [calls |-> <<[fn |-> "isBehind", jac |-> {}], [fn |-> "contains", jac |-> {}]>>,
          exc |-> Exception("contains", QPE)]
  ELSE [calls |-> <<[fn |-> "isBehind", jac |-> {}], [fn |-> "contains", jac |-> {}]>>,
        exc |-> NoException]

\* "check pose-quadric pair": commented out, nothing is consulted or raised
PoseQuadricCheck(c, errorType) == [calls |-> <<>>, exc |-> NoException]

\* "check dual conic is valid for error function": commented out
DualConicCheck(c, errorType) == [calls |-> <<>>, exc |-> NoException]

\* dualConic = QuadricCamera::project(quadric, pose, calibration_, ...),
\* between the two checks
DoProject(c, errorType, out) ==
  LET pre == PoseQuadricCheck(c, errorType)
      jac == ProjectJacobians(c)
      c1 == [c EXCEPT !.calls = @ \o pre.calls]
      c2 == [c1 EXCEPT !.calls = Append(@, [fn |-> "project", jac |-> jac])]
      c3 == [c2 EXCEPT !.pc = "projected", !.dualConic = out.conic,
                       !.dC_dq = IF "dC_dq" \in jac THEN Mat(9, 9, "dC_dq") ELSE @,
                       !.dC_dx = IF "dC_dx" \in jac THEN Mat(9, 6, "dC_dx") ELSE @]
      post == DualConicCheck(c3, errorType)
      c4 == [c3 EXCEPT !.calls = @ \o post.calls]
  IN IF pre.exc # NoException THEN Raise(c1, pre.exc, pre.exc.class)
     ELSE IF out.exc # NoException THEN Raise(c2, out.exc, out.exc.class)
     ELSE IF post.exc # NoException THEN Raise(c4, post.exc, post.exc.class)
     ELSE c4

\* the handler with its disabled last line enabled:
\* throw std::runtime_error(ss.str())
InnerCatchRethrow(k) == k

\* catch (std::runtime_error& e) around smartBounds:
\* throw QuadricProjectionException("smartbounds failed")
InnerCatch(k) == IF k = "runtime_error" THEN QPE ELSE k

\* the extractor errorType_ selects
Extractor(errorType) == IF errorType = "SIMPLE" THEN "bounds" ELSE "smartBounds"

\* the extraction with the disabled retry enabled: when smartBounds fails,
\* predictedBounds = dualConic.bounds(computeJacobians?&db_dC:0)
DoBoundsRetry(c, errorType, out) ==
  LET jac == IF ComputeJacobians(c) THEN {"db_dC"} ELSE {}
      d == [c EXCEPT !.calls = Append(@, [fn |-> Extractor(errorType), jac |-> jac])]
      e == [d EXCEPT !.calls = Append(@, [fn |-> "bounds", jac |-> jac])]
      again == BoundsOutcome(c.dualConic)
      done(x, box) == [x EXCEPT !.pc = "bounded", !.predictedBounds = box,
                                !.db_dC = IF "db_dC" \in jac THEN Mat(4, 9, "db_dC") ELSE @]
  IN IF out.exc = NoException THEN done(d, out.box)
     ELSE IF errorType = "SIMPLE" \/ out.exc.class # "runtime_error"
       THEN Raise(d, out.exc, out.exc.class)
     ELSE IF again.exc = NoException THEN done(e, again.box)
     ELSE Raise(e, again.exc, again.exc.class)

\* predictedBounds = dualConic.bounds(...) or dualConic.smartBounds(...)
DoBounds(c, errorType, out) ==
  LET jac == IF ComputeJacobians(c) THEN {"db_dC"} ELSE {}
      d == [c EXCEPT !.calls = Append(@, [fn |-> Extractor(errorType), jac |-> jac])]
  IN IF out.exc # NoException
       THEN Raise(d, out.exc,
                  IF errorType = "SIMPLE" THEN out.exc.class ELSE InnerCatch(out.exc.class))
       ELSE [d EXCEPT !.pc = "bounded", !.predictedBounds = out.box,
                      !.db_dC = IF "db_dC" \in jac THEN Mat(4, 9, "db_dC") ELSE @]

\* what the entry point hands back: evaluateH1 and evaluateH2 return the
\* matrix evaluateError wrote
ReturnMatrix(c) ==
  IF c.entry = "evaluateH1" THEN c.H1
  ELSE IF c.entry = "evaluateH2" THEN c.H2
  ELSE NoRef

\* the residual with "truncate predicted bounds" enabled: every component
\* of v is clamped from v(0)
ResidualOfTruncated(predicted, measured) ==
  LET v0 == Min(Max(predicted[1], 0), 320)
      v1 == Min(Max(v0, 0), 240)
      v2 == Min(Max(v0, 0), 320)
      v3 == Min(Max(v0, 0), 240)
  IN VecSub(<<v0, v1, v2, v3>>, measured)

\* the residual with the disabled "error = predictedBounds.vector()" enabled
ResidualOfPredictedOnly(predicted, measured) == predicted

\* Vector4 error = predictedBounds.vector() - measured_.vector()
ResidualOf(predicted, measured) == VecSub(predicted, measured)

\* the end of the try block: the error, the requested Jacobians, return
DoReturnError(c, measured) ==
  LET d == [c EXCEPT !.error = ResidualOf(c.predictedBounds, measured),
                     !.H1 = IF Requested(c.H1) THEN MatMul(c.db_dC, c.dC_dx) ELSE @,
                     !.H2 = IF Requested(c.H2) THEN MatMul(c.db_dC, c.dC_dq) ELSE @]
  IN [d EXCEPT !.pc = "returned", !.retMatrix = ReturnMatrix(d)]

\* Vector4::Ones()*1000.0
FallbackError == <<FallbackValue, FallbackValue, FallbackValue, FallbackValue>>

\* the handler doing what its comment says: "set error vector and
\* jacobians to zero"
CatchHandlerZeroError(c, fac) ==
  LET d == [c EXCEPT !.error = <<0, 0, 0, 0>>,
                     !.H1 = IF Requested(c.H1) THEN ZeroMatrix(4, 6) ELSE @,
                     !.H2 = IF Requested(c.H2) THEN ZeroMatrix(4, 9) ELSE @]
  IN [call |-> [d EXCEPT !.pc = "returned", !.retMatrix = ReturnMatrix(d)],
      factor |-> fac]

\* the handler with its disabled "set high sigma" enabled:
\* notThis->noiseModel_ = Diagonal::Sigmas(Vector4::Ones()*1000000)
CatchHandlerHighSigma(c, fac) ==
  LET d == [c EXCEPT !.error = FallbackError,
                     !.H1 = IF Requested(c.H1) THEN ZeroMatrix(4, 6) ELSE @,
                     !.H2 = IF Requested(c.H2) THEN ZeroMatrix(4, 9) ELSE @]
  IN [call |-> [d EXCEPT !.pc = "returned", !.retMatrix = ReturnMatrix(d)],
      factor |-> [fac EXCEPT !.noiseModel = HighSigma]]

\* catch (QuadricProjectionException& e): the call and the factor after it
CatchHandler(c, fac) ==
  LET d == [c EXCEPT !.error = FallbackError,
                     !.H1 = IF Requested(c.H1) THEN ZeroMatrix(4, 6) ELSE @,
                     !.H2 = IF Requested(c.H2) THEN ZeroMatrix(4, 9) ELSE @]
  IN [call |-> [d EXCEPT !.pc = "returned", !.retMatrix = ReturnMatrix(d)],
      factor |-> fac]

\* the exception in flight meets the function's only handler
DoUnwind(c, fac) ==
  IF c.inflight = QPE
    THEN CatchHandler(c, fac)
    ELSE [call |-> [c EXCEPT !.pc = "propagated"], factor |-> fac]

(***************************************************************************)
(* Construction.                                                           *)
(***************************************************************************)
Calibration ==
  [fx |-> CalFx, fy |-> CalFy, s |-> CalSkew, u0 |-> CalU0, v0 |-> CalV0]

\* QuadricCamera::project(quadrics[j], trajectory[i], calibration).bounds()
MeasuredBox(quadric, pose, K) == ConicBox(ProjectConic(quadric, pose, K))

\* trajectory: the true poses, which look at the origin from a distance
Trajectory == {<<0, 0, 0 - MaxDepth>>}

\* a true pose, a true quadric and the bounds measured from them
Scenes ==
  {[pose |-> x, quadric |-> q, bounds |-> MeasuredBox(q, x, Calibration)] :
     x \in Trajectory, q \in Quadrics}

\* BoundingBoxFactor(bounds, calibration, poseKey, objectKey, boxNoiseModel)
NewFactor(measured, errorType) ==
  [measured |-> measured, errorType |-> errorType, noiseModel |-> BoxSigma]

Init ==
  /\ scene \in Scenes
  /\ calibration = Calibration
  /\ factors = [f \in FactorIds |->
                  NewFactor(scene.bounds,
                            IF f = "bbfSimple" THEN "SIMPLE" ELSE "COMPLEX")]
  /\ call = [t \in Threads |-> IdleCall]

(***************************************************************************)
(* Steps of an evaluation by thread t.  raised: the exception classes the  *)
(* callee may raise besides failing the way its geometry makes it fail.    *)
(* The entry and the projection, which touch the call's locals only, are   *)
(* one step.                                                               *)
(***************************************************************************)
ProjectOutcomes(quadric, pose, K, raised) ==
  {[exc |-> NoException, conic |-> ProjectConic(quadric, pose, K)]} \cup
  {[exc |-> Exception("project", k), conic |-> NoConic] : k \in raised}

\* thread t enters evaluateError and runs it up to the end of the projection
Invoke(t, entry, f, x, q, H1, H2, raised) ==
  /\ call[t].pc = "idle"
  /\ \E out \in ProjectOutcomes(q, x, calibration, raised) :
       call' = [call EXCEPT ![t] =
                  DoProject(EnterEvaluateError(entry, f, x, q, H1, H2),
                            factors[f].errorType, out)]
  /\ UNCHANGED <<scene, calibration, factors>>

\* evaluateError(pose, quadric, H1, H2) called by the solver
CallEvaluateError(t, raised) ==
  \E f \in FactorIds, x \in Poses, q \in Quadrics, h1 \in BOOLEAN, h2 \in BOOLEAN :
    Invoke(t, "evaluateError", f, x, q,
           IF h1 THEN EmptyMatrix ELSE NoRef, IF h2 THEN EmptyMatrix ELSE NoRef, raised)

\* evaluateH1(pose, quadric): Matrix H1; evaluateError(pose, quadric, H1, none)
CallEvaluateH1(t, raised) ==
  \E f \in FactorIds, x \in Poses, q \in Quadrics :
    Invoke(t, "evaluateH1", f, x, q, EmptyMatrix, NoRef, raised)

\* evaluateH2(pose, quadric): Matrix H2; evaluateError(pose, quadric, none, H2)
CallEvaluateH2(t, raised) ==
  \E f \in FactorIds, x \in Poses, q \in Quadrics :
    Invoke(t, "evaluateH2", f, x, q, NoRef, EmptyMatrix, raised)

ExtractorOutcomes(c, errorType, K, raised) ==
  {IF errorType = "SIMPLE" THEN BoundsOutcome(c.dualConic)
                           ELSE SmartBoundsOutcome(c.dualConic, K)} \cup
  {[exc |-> Exception(Extractor(errorType), k), box |-> NoBox] : k \in raised}

Bounds(t, raised) ==
  /\ call[t].pc = "projected"
  /\ LET errorType == factors[call[t].factor].errorType
     IN \E out \in ExtractorOutcomes(call[t], errorType, calibration, raised) :
          call' = [call EXCEPT ![t] = DoBounds(call[t], errorType, out)]
  /\ UNCHANGED <<scene, calibration, factors>>

ReturnError(t) ==
  /\ call[t].pc = "bounded"
  /\ call' = [call EXCEPT ![t] = DoReturnError(call[t], factors[call[t].factor].measured)]
  /\ UNCHANGED <<scene, calibration, factors>>

Unwind(t) ==
  /\ call[t].pc = "unwinding"
  /\ LET f == call[t].factor
         after == DoUnwind(call[t], factors[f])
     IN /\ call' = [call EXCEPT ![t] = after.call]
        /\ factors' = [factors EXCEPT ![f] = after.factor]
  /\ UNCHANGED <<scene, calibration>>

\* the solver takes the result (or the exception) and the thread is free
Finish(t) ==
  /\ call[t].pc \in {"returned", "propagated"}
  /\ call' = [call EXCEPT ![t] = IdleCall]
  /\ UNCHANGED <<scene, calibration, factors>>

\* the callees fail only the way their geometry makes them fail
Next ==
  \E t \in Threads :
    \/ CallEvaluateError(t, {})
    \/ CallEvaluateH1(t, {})
    \/ CallEvaluateH2(t, {})
    \/ Bounds(t, {})
    \/ ReturnError(t)
    \/ Unwind(t)
    \/ Finish(t)

Spec == Init /\ [][Next]_vars

\* one thread, whose callees may also raise an exception of any class
NextFault ==
  \E t \in {"w1"} :
    \/ CallEvaluateError(t, ExceptionClasses)
    \/ CallEvaluateH1(t, ExceptionClasses)
    \/ CallEvaluateH2(t, ExceptionClasses)
    \/ Bounds(t, ExceptionClasses)
    \/ ReturnError(t)
    \/ Unwind(t)
    \/ Finish(t)

SpecFault == Init /\ [][NextFault]_vars

(***************************************************************************)
(* evaluateError run from entry to exit with nothing interleaved.          *)
(***************************************************************************)
\* the call as it was entered
Entered(c) ==
  EnterEvaluateError(c.entry, c.factor, c.pose, c.quadric,
                     IF Requested(c.H1) THEN EmptyMatrix ELSE NoRef,
                     IF Requested(c.H2) THEN EmptyMatrix ELSE NoRef)

\* evaluateError on factor fac with calibration K, its callees failing only
\* the way their geometry makes them fail
RunAlone(c0, fac, K) ==
  LET p == DoProject(c0, fac.errorType,
                     [exc |-> NoException, conic |-> ProjectConic(c0.quadric, c0.pose, K)])
      b == DoBounds(p, fac.errorType,
                    IF fac.errorType = "SIMPLE" THEN BoundsOutcome(p.dualConic)
                                                ELSE SmartBoundsOutcome(p.dualConic, K))
  IN IF p.pc = "unwinding" THEN DoUnwind(p, fac).call
     ELSE IF b.pc = "unwinding" THEN DoUnwind(b, fac).call
     ELSE DoReturnError(b, fac.measured)

\* the mode factor f is constructed with
ModeOf(f) == IF f = "bbfSimple" THEN "SIMPLE" ELSE "COMPLEX"

\* the factor as constructed
Constructed(f) == NewFactor(scene.bounds, ModeOf(f))

Ended(c) == c.pc \in {"returned", "propagated"}
Succeeded(c) == c.pc = "returned" /\ c.thrown = NoException
FnsCalled(c) == {c.calls[i].fn : i \in 1..Len(c.calls)}
Thousands == <<1000, 1000, 1000, 1000>>
IsFallback(c) ==
  /\ c.pc = "returned"
  /\ c.error = Thousands
  /\ c.H1 \in {NoRef, Mat(4, 6, "zero")}
  /\ c.H2 \in {NoRef, Mat(4, 9, "zero")}

(***************************************************************************)
(* Claims.                                                                 *)
(***************************************************************************)
\* an exception of the projection-failure class, or the runtime error of
\* smartBounds that the inner handler turns into one
ProjectionFailure(c) ==
  \/ c.thrown.class = QPE
  \/ c.thrown.at = "smartBounds" /\ c.thrown.class = "runtime_error"

C2_NoErrorEscapes ==
  \A t \in Threads : call[t].pc # "propagated"

\* C3: when projection and box extraction succeed, the residual is exactly
\* predictedBox - measuredBox, componentwise in the order (xmin, ymin, xmax,
\* ymax), the predicted box being the extracted box unaltered.
C3_ResidualIsDifference ==
  \A t \in Threads :
    Succeeded(call[t]) =>
      LET c == call[t]
          p == ConicBox(c.dualConic)
          m == factors[c.factor].measured
      IN /\ c.predictedBounds = p
         /\ c.error = <<p[1] - m[1], p[2] - m[2], p[3] - m[3], p[4] - m[4]>>

\* a successful evaluation whose predicted box leaves the image
C3_Witness ==
  \E t \in Threads :
    /\ Succeeded(call[t])
    /\ call[t].predictedBounds[2] < 0
    /\ call[t].error # <<0, 0, 0, 0>>

\* C4: the mode alone selects the extractor: a simple factor calls bounds
\* once and never smartBounds, a strict factor calls smartBounds once and
\* never bounds, and a failure of smartBounds ends in the fallback.
C4_ModeSelectsExtractor ==
  \A t \in Threads :
    LET c == call[t]
        mode == factors[c.factor].errorType
        ext == SelectSeq(c.calls, LAMBDA x : x.fn \in {"bounds", "smartBounds"})
    IN c.pc # "idle" =>
         /\ Len(ext) <= 1
         /\ c.pc \in {"bounded", "returned"} /\ c.thrown.at # "project" => Len(ext) = 1
         /\ Len(ext) = 1 => ext[1].fn = (IF mode = "SIMPLE" THEN "bounds" ELSE "smartBounds")
         /\ (Ended(c) /\ c.thrown.at = "smartBounds") => IsFallback(c)

\* a strict factor returned the fallback where bounds would have given a box
C4_Witness ==
  \E t \in Threads :
    /\ call[t].pc = "returned"
    /\ call[t].factor = "bbfStrict"
    /\ call[t].thrown.at = "smartBounds"
    /\ ~BoundsUndefined(call[t].dualConic)
    /\ call[t].error = Thousands

\* C5: an evaluation returns what its inputs alone determine, whatever was
\* evaluated before, and no evaluation changes a factor's measured box,
\* mode or noise model, or the calibration.
C5_PureFunction ==
  LET made == [f \in FactorIds |-> Constructed(f)]
  IN /\ calibration = Calibration
     /\ factors = made
     /\ \A t \in Threads :
          Ended(call[t]) =>
            call[t] = RunAlone(Entered(call[t]), made[call[t].factor], Calibration)

\* a failed evaluation next to a successful one of the same factor
C5_Witness ==
  \E t \in Threads, u \in Threads :
    /\ Succeeded(call[t])
    /\ call[u].pc = "returned" /\ call[u].thrown # NoException
    /\ call[t].factor = call[u].factor

\* C6: under every interleaving a step of one thread leaves the factors,
\* the calibration and the other threads' evaluations as they were, and an
\* evaluation that ends in the step ends with the result it has when run
\* alone.
C6_ConcurrentEvaluationsSafe ==
  [][\A t \in Threads :
       call'[t] # call[t] =>
         /\ factors' = factors
         /\ calibration' = calibration
         /\ \A u \in Threads \ {t} : call'[u] = call[u]
         /\ Ended(call'[t]) =>
              call'[t] = RunAlone(Entered(call'[t]), factors[call'[t].factor], calibration)]_vars

\* two evaluations of one factor in progress at once, one of them unwinding
C6_Witness ==
  /\ call["w1"].pc = "unwinding"
  /\ call["w2"].pc \in {"projected", "bounded"}
  /\ call["w1"].factor = call["w2"].factor

\* the camera is at the ellipsoid's centre
AtCentre(c) == c.pc # "idle" /\ c.pose = c.quadric.centre

C8_ChainRuleJacobians ==
  \A t \in Threads :
    LET c == call[t]
    IN /\ c.H1 = NoRef \/ c.H1 \in {EmptyMatrix, Mat(4, 6, "zero"), Mat(4, 6, "db_dC*dC_dx")}
       /\ (c.pc \in {"projected", "bounded", "returned"} /\ c.thrown = NoException) =>
            c.calls[1] = [fn |-> "project",
                          jac |-> (IF c.H1 = NoRef THEN {} ELSE {"dC_dx"}) \cup
                                  (IF c.H2 = NoRef THEN {} ELSE {"dC_dq"})]
       /\ Succeeded(c) =>
            /\ c.H1 \in {NoRef, Mat(4, 6, "db_dC*dC_dx")}
            /\ c.H2 \in {NoRef, Mat(4, 9, "db_dC*dC_dq")}
            /\ c.entry = "evaluateH1" => c.retMatrix = Mat(4, 6, "db_dC*dC_dx")
            /\ c.entry = "evaluateH2" => c.retMatrix = Mat(4, 9, "db_dC*dC_dq")

\* evaluateH1 returned its block
C8_Witness ==
  \E t \in Threads, u \in Threads :
    /\ Succeeded(call[t]) /\ call[t].entry = "evaluateH1"
    /\ call[t].retMatrix = Mat(4, 6, "db_dC*dC_dx")
    /\ call[t].H2 = NoRef
    /\ Succeeded(call[u]) /\ call[u].entry = "evaluateError"
    /\ call[u].H1 = call[t].retMatrix /\ call[u].H2 # NoRef

\* the evaluation is at the pose and quadric the measurement was made from
AtScene(c) == c.pc # "idle" /\ c.pose = scene.pose /\ c.quadric = scene.quadric

\* C9: a simple factor whose measured box is project(q, x).bounds() returns
\* the zero residual at that pose x and quadric q.
C9_ZeroAtTruth ==
  \A t \in Threads :
    (Ended(call[t]) /\ AtScene(call[t]) /\ call[t].factor = "bbfSimple") =>
      /\ call[t].pc = "returned"
      /\ call[t].error = <<0, 0, 0, 0>>

\* a simple factor evaluated at the truth, its box outside the image
C9_Witness ==
  \E t \in Threads :
    /\ call[t].pc = "returned"
    /\ AtScene(call[t])
    /\ call[t].factor = "bbfSimple"
    /\ ~InFieldOfView(call[t].predictedBounds, calibration)

\* C10: in both modes the evaluation consults none of isBehind, contains
\* and isEllipse; the fallback is returned only when project, bounds or
\* smartBounds raised, and otherwise the residual is predictedBox -
\* measuredBox.
C10_ChecksStayDisabled ==
  \A t \in Threads :
    LET c == call[t]
    IN /\ FnsCalled(c) \subseteq {"project", "bounds", "smartBounds"}
       /\ c.thrown # NoException => c.thrown.at \in {"project", "bounds", "smartBounds"}
       /\ (c.pc = "returned" /\ c.thrown = NoException) =>
            c.error = VecSub(c.predictedBounds, factors[c.factor].measured)

\* a strict factor gave a residual for a quadric behind the camera
C10_Witness ==
  \E t \in Threads :
    /\ Succeeded(call[t])
    /\ call[t].factor = "bbfStrict"
    /\ IsBehind(call[t].quadric, call[t].pose)
    /\ call[t].error # Thousands

=============================================================================
